---- MODULE Spec2Model ----
(***************************************************************************)
(* roller: a command-line dice-notation evaluator (src/main.rs).           *)
(*                                                                         *)
(* main reads the input string and the --crit flag, run parses the input   *)
(* with two independent regular expressions (DICE and CONSTANTS) into a    *)
(* Roll, Roll::cast draws one outcome per die, prints them, and returns    *)
(* dice * crit + constant in i32 arithmetic; main prints the result.       *)
(*                                                                         *)
(* A string is a sequence of one-character strings.  Integers are i32:     *)
(* every addition is checked against I32Max before it is carried out.      *)
(***************************************************************************)
EXTENDS Integers, Sequences, FiniteSets, TLC

(***************************************************************************)
(* Bounds of the model.                                                    *)
(***************************************************************************)
\* longest input drawn from all strings over Alphabet
MaxLen == 4
\* most terms of an input built as terms joined by "+"
MaxTerms == 3
\* most dice a Roll holds in the model (the Vec itself is unbounded)
MaxDice == 5

(***************************************************************************)
(* Characters.                                                             *)
(***************************************************************************)
AsciiDigit == {"0", "1", "2", "3", "4", "5", "6", "7", "8", "9"}

\* ARABIC-INDIC DIGIT THREE: a decimal digit (class Nd) that is not ASCII
ArabicThree == "U+0663"

DigitVal == [c \in AsciiDigit |->
               CASE c = "0" -> 0 [] c = "1" -> 1 [] c = "2" -> 2 [] c = "3" -> 3
                 [] c = "4" -> 4 [] c = "5" -> 5 [] c = "6" -> 6 [] c = "7" -> 7
                 [] c = "8" -> 8 [] c = "9" -> 9]

\* \d of the regex crate is Unicode-aware: any decimal digit
IsDigit(c) == c \in AsciiDigit \cup {ArabicThree}

\* the largest i32
I32Max == 2147483647
I32Min == -I32Max - 1

(***************************************************************************)
(* i32 arithmetic.  A result is [panic, val]: with overflow checks on (a   *)
(* debug build) an overflowing operation panics, without them (a release   *)
(* build) it wraps modulo 2^32.  wrap = TRUE is the release build.         *)
(***************************************************************************)
Add32(a, b, wrap) ==
    IF b >= 0 /\ a > I32Max - b
    THEN [panic |-> ~wrap, val |-> (a - I32Max - 1) + (b - I32Max - 1)]
    ELSE IF b < 0 /\ a < I32Min - b
    THEN [panic |-> ~wrap, val |-> (a + I32Max + 1) + (b + I32Max + 1)]
    ELSE [panic |-> FALSE, val |-> a + b]

RECURSIVE SumFrom(_, _, _, _)
SumFrom(xs, i, acc, wrap) ==
    IF i > Len(xs) THEN [panic |-> FALSE, val |-> acc]
    ELSE LET r == Add32(acc, xs[i], wrap)
         IN IF r.panic THEN r ELSE SumFrom(xs, i + 1, r.val, wrap)

\* Iterator::sum over i32: 0 + x1 + x2 + ...
Sum32(xs, wrap) == SumFrom(xs, 1, 0, wrap)

\* a * n for n >= 0, as n wrapping additions (the same value modulo 2^32,
\* and a partial sum leaves the i32 range exactly when the product does)
RECURSIVE MulFrom(_, _, _, _)
MulFrom(a, n, acc, wrap) ==
    IF n = 0 THEN [panic |-> FALSE, val |-> acc]
    ELSE LET r == Add32(acc, a, wrap)
         IN IF r.panic THEN r ELSE MulFrom(a, n - 1, r.val, wrap)

Mul32(a, n, wrap) == MulFrom(a, n, 0, wrap)

(***************************************************************************)
(* str::parse::<i32> on a run of digits: checked multiply-and-add, an      *)
(* error on a character that is not an ASCII digit or on overflow.         *)
(***************************************************************************)
ParseError == -1

RECURSIVE ParseAcc(_, _, _)
ParseAcc(ds, i, acc) ==
    IF i > Len(ds) THEN acc
    ELSE IF ds[i] \notin AsciiDigit THEN ParseError
    ELSE LET d == DigitVal[ds[i]]
         IN IF acc > (I32Max - d) \div 10 THEN ParseError
            ELSE ParseAcc(ds, i + 1, acc * 10 + d)

ParseI32(ds) == IF Len(ds) = 0 THEN ParseError ELSE ParseAcc(ds, 1, 0)

(***************************************************************************)
(* The two regular expressions.                                            *)
(***************************************************************************)
\* the index after the longest run of digits that starts at i
RECURSIVE SkipDigits(_, _)
SkipDigits(s, i) ==
    IF i <= Len(s) /\ IsDigit(s[i]) THEN SkipDigits(s, i + 1) ELSE i

NoMatch == [start |-> 0]

\* DICE, (?P<count>\d+)(?P<dtype>d\d+)\+?, anchored at i
DiceMatchAt(s, i) ==
    LET j == SkipDigits(s, i)
        k == SkipDigits(s, j + 1)
        e == IF k <= Len(s) /\ s[k] = "+" THEN k + 1 ELSE k
    IN IF j > i /\ j <= Len(s) /\ s[j] = "d" /\ k > j + 1
       THEN [start |-> i, end |-> e,
             count |-> SubSeq(s, i, j - 1), dtype |-> SubSeq(s, j, k - 1)]
       ELSE NoMatch

\* a mutant of ConstMatchAt: the pattern without its tail (\+|$)
ConstMatchAtNoTail(s, i) ==
    LET j == SkipDigits(s, i + 1)
    IN IF i <= Len(s) /\ s[i] = "+" /\ j > i + 1
       THEN [start |-> i, end |-> j, const |-> SubSeq(s, i + 1, j - 1)]
       ELSE NoMatch

\* CONSTANTS, \+(?P<const>\d+)(\+|$), anchored at i
ConstMatchAt(s, i) ==
    LET j == SkipDigits(s, i + 1)
        e == IF j <= Len(s) THEN j + 1 ELSE j
    IN IF i <= Len(s) /\ s[i] = "+" /\ j > i + 1 /\ (j > Len(s) \/ s[j] = "+")
       THEN [start |-> i, end |-> e, const |-> SubSeq(s, i + 1, j - 1)]
       ELSE NoMatch

\* captures_iter(...).next(): the leftmost match at or after from
RECURSIVE NextDiceMatch(_, _)
NextDiceMatch(s, from) ==
    IF from > Len(s) THEN NoMatch
    ELSE IF DiceMatchAt(s, from) # NoMatch THEN DiceMatchAt(s, from)
    ELSE NextDiceMatch(s, from + 1)

RECURSIVE NextConstMatch(_, _)
NextConstMatch(s, from) ==
    IF from > Len(s) THEN NoMatch
    ELSE IF ConstMatchAt(s, from) # NoMatch THEN ConstMatchAt(s, from)
    ELSE NextConstMatch(s, from + 1)

(***************************************************************************)
(* Dice.                                                                   *)
(***************************************************************************)
Dice == {"D4", "D6", "D8", "D10", "D12", "D20", "D100"}

Unreachable == "unreachable"

\* impl From<&str> for Dice
DiceFrom(t) ==
    CASE t = <<"d", "4">> -> "D4"
      [] t = <<"d", "6">> -> "D6"
      [] t = <<"d", "8">> -> "D8"
      [] t = <<"d", "1", "0">> -> "D10"
      [] t = <<"d", "1", "2">> -> "D12"
      [] t = <<"d", "2", "0">> -> "D20"
      [] t = <<"d", "1", "0", "0">> -> "D100"
      [] OTHER -> Unreachable

\* a mutant of GenRange: the upper bound taken as inclusive
GenRangeInclusive(low, high) == low .. high

\* Rng::gen_range(low, high): the half-open range [low, high)
GenRange(low, high) == low .. (high - 1)

\* impl From<Dice> for i32: the outcomes one draw can give
Outcomes(d) ==
    CASE d = "D4" -> GenRange(1, 5)
      [] d = "D6" -> GenRange(1, 7)
      [] d = "D8" -> GenRange(1, 9)
      [] d = "D10" -> GenRange(1, 11)
      [] d = "D12" -> GenRange(1, 13)
      [] d = "D20" -> GenRange(1, 21)
      [] d = "D100" -> GenRange(1, 101)

\* a mutant of Expand: the new entries are put in front
ExpandFront(ds, count, d) == [i \in 1 .. count |-> d] \o ds

\* for _ in 0..count { roll.dice.push(d) }
Expand(ds, count, d) == ds \o [i \in 1 .. count |-> d]

(***************************************************************************)
(* Output lines (println!).                                                *)
(***************************************************************************)
Notice == <<"Critical Hit!">>
Separator == <<"---">>
ErrLine == <<"error">>
ScoreLine(n) == <<"score", n>>
TotalLine(n) == <<"total", n>>

\* a mutant of ScoreLines: the scores printed last to first
ScoreLinesReversed(sc) == [i \in 1 .. Len(sc) |-> ScoreLine(sc[Len(sc) + 1 - i])]

\* for n in &dice_scores { println!("{}", n) }
ScoreLines(sc) == [i \in 1 .. Len(sc) |-> ScoreLine(sc[i])]

\* println!("---\n{}", res)
OkLines(r) == <<Separator, TotalLine(r)>>

(***************************************************************************)
(* Inputs.                                                                 *)
(***************************************************************************)
Alphabet == {"1", "7", "8", "d", "+", "x"}

ShortStrings == UNION {[1 .. n -> Alphabet] : n \in 0 .. MaxLen}

Big == <<"2", "1", "4", "7", "4", "8", "3", "6", "4", "7">>
Huge == <<"9", "9", "9", "9", "9", "9", "9", "9", "9", "9">>

Terms ==
    { <<>>,
      <<"1", "d", "4">>, <<"1", "d", "6">>,
      <<"1", "d", "7">>,
      <<"3">>, Big, Huge }

RECURSIVE Join(_)
Join(ts) ==
    IF Len(ts) = 0 THEN <<>>
    ELSE IF Len(ts) = 1 THEN ts[1]
    ELSE ts[1] \o <<"+">> \o Join(Tail(ts))

TermInputs == {Join(ts) : ts \in UNION {[1 .. n -> Terms] : n \in 1 .. MaxTerms}}

\* one die of every type
DieInputs ==
    { <<"1">> \o t : t \in { <<"d", "4">>, <<"d", "6">>, <<"d", "8">>,
                             <<"d", "1", "0">>, <<"d", "1", "2">>,
                             <<"d", "2", "0">>, <<"d", "1", "0", "0">> } }

\* the inputs of the tests of src/main.rs
TestInputs ==
    { <<"3", "d", "4", "+", "2", "d", "8", "+", "6">>,
      <<"+", "3">>,
      <<"3", "d", "4">>,
      <<"3", "d", "4", "+", "6">>,
      <<"3", "d", "4", "+", "2", "d", "8">>,
      <<"3", "d", "4", "+", "6", "+", "2", "d", "8", "+", "9">> }

\* digits that are not ASCII, and groups of no dice
OddInputs ==
    { <<"+", ArabicThree>>,
      <<ArabicThree, "d", "4">>,
      <<"1", "d", "4", "+", ArabicThree>>,
      <<"0", "d", "6">>,
      <<"0", "d", "6", "+", "2", "d", "4", "+", "0", "d", "8">>,
      <<"0", "d", "7">>,
      <<"0", "d", "7", "+", "1", "d", "4">>,
      <<"1", "d", "4", "+", "0", "d", "7", "+", "3">> }

Inputs ==
    ShortStrings \cup TermInputs \cup DieInputs \cup TestInputs \cup OddInputs

(***************************************************************************)
(* State.                                                                  *)
(***************************************************************************)
VARIABLES
    input,      \* opt.input
    optCrit,    \* opt.crit
    crit,       \* main's crit (0 before it is set)
    pc,         \* where the process is
    dpos,       \* where the DICE captures_iter searches next
    cpos,       \* where the CONSTANTS captures_iter searches next
    dice,       \* roll.dice
    constants,  \* roll.constants
    csrc,       \* the start of the match each entry of roll.constants came from
    scores,     \* dice_scores
    res,        \* the value cast returned
    out,        \* the lines printed to stdout
    failure,    \* "none", "ParseIntError", "unreachable" or "overflow"
    exitCode    \* the exit status (-1 while the process runs)

vars == <<input, optCrit, crit, pc, dpos, cpos, dice, constants, csrc, scores,
          res, out, failure, exitCode>>

PanicExit == 101

Init ==
    /\ input \in Inputs
    /\ optCrit \in BOOLEAN
    /\ crit = 0
    /\ pc = "main"
    /\ dpos = 1
    /\ cpos = 1
    /\ dice = <<>>
    /\ constants = <<>>
    /\ csrc = <<>>
    /\ scores = <<>>
    /\ res = 0
    /\ out = <<>>
    /\ failure = "none"
    /\ exitCode = -1

\* main, up to the call of run
Main ==
    /\ pc = "main"
    /\ crit' = IF optCrit THEN 2 ELSE 1
    /\ out' = IF optCrit THEN <<Notice>> ELSE <<>>
    /\ pc' = "parse_dice"
    /\ UNCHANGED <<input, optCrit, dpos, cpos, dice, constants, csrc, scores,
                   res, failure, exitCode>>

\* a mutant of ParseDiceGroup: each group is rolled and printed as it is parsed
ParseDiceGroupEager ==
    /\ pc = "parse_dice"
    /\ NextDiceMatch(input, dpos) # NoMatch
    /\ LET m == NextDiceMatch(input, dpos)
           n == ParseI32(m.count)
       IN IF n = ParseError
          THEN /\ failure' = "ParseIntError"
               /\ pc' = "report_err"
               /\ UNCHANGED <<dpos, dice, exitCode, out>>
          ELSE IF n > 0 /\ DiceFrom(m.dtype) = Unreachable
          THEN /\ failure' = "unreachable"
               /\ pc' = "exit"
               /\ exitCode' = PanicExit
               /\ UNCHANGED <<dpos, dice, out>>
          ELSE /\ Len(dice) + n <= MaxDice
               /\ dice' = Expand(dice, n, DiceFrom(m.dtype))
               /\ out' = out \o [i \in 1 .. n |-> ScoreLine(1)]
               /\ dpos' = m.end
               /\ UNCHANGED <<pc, failure, exitCode>>
    /\ UNCHANGED <<input, optCrit, crit, cpos, constants, csrc, scores, res>>

\* parse: one turn of `for c in caps`
ParseDiceGroup ==
    /\ pc = "parse_dice"
    /\ NextDiceMatch(input, dpos) # NoMatch
    /\ LET m == NextDiceMatch(input, dpos)
           n == ParseI32(m.count)
       IN IF n = ParseError
          THEN /\ failure' = "ParseIntError"
               /\ pc' = "report_err"
               /\ UNCHANGED <<dpos, dice, exitCode>>
          ELSE IF n > 0 /\ DiceFrom(m.dtype) = Unreachable
          THEN /\ failure' = "unreachable"
               /\ pc' = "exit"
               /\ exitCode' = PanicExit
               /\ UNCHANGED <<dpos, dice>>
          ELSE /\ Len(dice) + n <= MaxDice
               /\ dice' = Expand(dice, n, DiceFrom(m.dtype))
               /\ dpos' = m.end
               /\ UNCHANGED <<pc, failure, exitCode>>
    /\ UNCHANGED <<input, optCrit, crit, cpos, constants, csrc, scores, res, out>>

\* parse: `for c in caps` ends
ParseDiceEnd ==
    /\ pc = "parse_dice"
    /\ NextDiceMatch(input, dpos) = NoMatch
    /\ pc' = "parse_const"
    /\ UNCHANGED <<input, optCrit, crit, dpos, cpos, dice, constants, csrc,
                   scores, res, out, failure, exitCode>>

\* parse: one turn of `for c in ccaps`
ParseConstant ==
    /\ pc = "parse_const"
    /\ NextConstMatch(input, cpos) # NoMatch
    /\ LET m == NextConstMatch(input, cpos)
           n == ParseI32(m.const)
       IN IF n = ParseError
          THEN /\ failure' = "ParseIntError"
               /\ pc' = "report_err"
               /\ UNCHANGED <<cpos, constants, csrc>>
          ELSE /\ constants' = Append(constants, n)
               /\ csrc' = Append(csrc, m.start)
               /\ cpos' = m.end
               /\ UNCHANGED <<pc, failure>>
    /\ UNCHANGED <<input, optCrit, crit, dpos, dice, scores, res, out, exitCode>>

\* parse returns Ok(roll), and run calls roll.cast(crit)
ParseOk ==
    /\ pc = "parse_const"
    /\ NextConstMatch(input, cpos) = NoMatch
    /\ pc' = "cast"
    /\ UNCHANGED <<input, optCrit, crit, dpos, cpos, dice, constants, csrc,
                   scores, res, out, failure, exitCode>>

\* cast: the map over self.dice draws the next die
Draw ==
    /\ pc = "cast"
    /\ Len(scores) < Len(dice)
    /\ \E r \in Outcomes(dice[Len(scores) + 1]) : scores' = Append(scores, r)
    /\ UNCHANGED <<input, optCrit, crit, pc, dpos, cpos, dice, constants, csrc,
                   res, out, failure, exitCode>>

\* cast, after the draws: print the scores, sum, return dice * crit + constant
CastSum ==
    /\ pc = "cast"
    /\ Len(scores) = Len(dice)
    /\ out' = out \o ScoreLines(scores)
    /\ \E wrap \in BOOLEAN :
         LET d == Sum32(scores, wrap)
             c == IF d.panic THEN d ELSE Sum32(constants, wrap)
             p == IF c.panic THEN c ELSE Mul32(d.val, crit, wrap)
             t == IF p.panic THEN p ELSE Add32(p.val, c.val, wrap)
         IN IF t.panic
            THEN /\ failure' = "overflow"
                 /\ pc' = "exit"
                 /\ exitCode' = PanicExit
                 /\ res' = res
            ELSE /\ res' = t.val
                 /\ pc' = "report_ok"
                 /\ UNCHANGED <<failure, exitCode>>
    /\ UNCHANGED <<input, optCrit, crit, dpos, cpos, dice, constants, csrc, scores>>

\* main: Ok(res) => println!("---\n{}", res)
ReportOk ==
    /\ pc = "report_ok"
    /\ out' = out \o OkLines(res)
    /\ pc' = "exit"
    /\ exitCode' = 0
    /\ UNCHANGED <<input, optCrit, crit, dpos, cpos, dice, constants, csrc,
                   scores, res, failure>>

\* main: Err(err) => println!("{:?}", err), and main returns
ReportErr ==
    /\ pc = "report_err"
    /\ out' = Append(out, ErrLine)
    /\ pc' = "exit"
    /\ exitCode' = 0
    /\ UNCHANGED <<input, optCrit, crit, dpos, cpos, dice, constants, csrc,
                   scores, res, failure>>

Next ==
    \/ Main
    \/ ParseDiceGroup
    \/ ParseDiceEnd
    \/ ParseConstant
    \/ ParseOk
    \/ Draw
    \/ CastSum
    \/ ReportOk
    \/ ReportErr

Spec == Init /\ [][Next]_vars

(***************************************************************************)
(* What the claims speak of.                                               *)
(***************************************************************************)
\* parse has returned Ok(roll)
ParseReturnedOk ==
    \/ pc \in {"cast", "report_ok"}
    \/ pc = "exit" /\ failure \in {"none", "overflow"}

\* parse has returned, Ok or Err, or has panicked
ParseEnded == pc \notin {"main", "parse_dice", "parse_const"}

\* cast was called and has returned or panicked
CastEnded ==
    \/ pc = "report_ok"
    \/ pc = "exit" /\ failure \in {"none", "overflow"}

\* the sides the specification supports, and the die and range of each
SupportedSides ==
    { <<"4">>, <<"6">>, <<"8">>, <<"1", "0">>, <<"1", "2">>, <<"2", "0">>,
      <<"1", "0", "0">> }

DieOfSides(ds) ==
    CASE ds = <<"4">> -> "D4"
      [] ds = <<"6">> -> "D6"
      [] ds = <<"8">> -> "D8"
      [] ds = <<"1", "0">> -> "D10"
      [] ds = <<"1", "2">> -> "D12"
      [] ds = <<"2", "0">> -> "D20"
      [] ds = <<"1", "0", "0">> -> "D100"
      [] OTHER -> "none"

SidesOf(d) ==
    CASE d = "D4" -> 4 [] d = "D6" -> 6 [] d = "D8" -> 8 [] d = "D10" -> 10
      [] d = "D12" -> 12 [] d = "D20" -> 20 [] d = "D100" -> 100

\* the terms of s, split at every "+"
RECURSIVE SplitFrom(_, _, _)
SplitFrom(s, i, cur) ==
    IF i > Len(s) THEN <<cur>>
    ELSE IF s[i] = "+" THEN <<cur>> \o SplitFrom(s, i + 1, <<>>)
    ELSE SplitFrom(s, i + 1, Append(cur, s[i]))

Split(s) == SplitFrom(s, 1, <<>>)

AllAscii(t) == \A i \in 1 .. Len(t) : t[i] \in AsciiDigit

\* a plain digit run whose value fits the integer type
IsDigitTerm(t) == Len(t) > 0 /\ AllAscii(t) /\ ParseI32(t) # ParseError

\* where the "d" of a dice-group term is (0 if the term is none)
DAt(t) ==
    IF \E j \in 2 .. Len(t) - 1 :
          /\ t[j] = "d"
          /\ AllAscii(SubSeq(t, 1, j - 1))
          /\ ParseI32(SubSeq(t, 1, j - 1)) # ParseError
          /\ SubSeq(t, j + 1, Len(t)) \in SupportedSides
    THEN CHOOSE j \in 2 .. Len(t) - 1 : t[j] = "d"
    ELSE 0

IsDiceTerm(t) == DAt(t) # 0

TermCount(t) == ParseI32(SubSeq(t, 1, DAt(t) - 1))

\* a dice group, then "+" and a dice group or a digit run, any number of times
TermForm(s) ==
    LET ts == Split(s)
    IN /\ IsDiceTerm(ts[1])
       /\ \A i \in 2 .. Len(ts) : IsDiceTerm(ts[i]) \/ IsDigitTerm(ts[i])

RECURSIVE DigitTermValues(_)
DigitTermValues(ts) ==
    IF ts = <<>> THEN <<>>
    ELSE (IF IsDigitTerm(Head(ts)) THEN <<ParseI32(Head(ts))>> ELSE <<>>)
         \o DigitTermValues(Tail(ts))

RECURSIVE DiceTermCounts(_)
DiceTermCounts(ts) ==
    IF ts = <<>> THEN 0
    ELSE (IF IsDiceTerm(Head(ts)) THEN TermCount(Head(ts)) ELSE 0)
         + DiceTermCounts(Tail(ts))

\* every match of the dice-group pattern in s, left to right
RECURSIVE DiceMatchesFrom(_, _)
DiceMatchesFrom(s, from) ==
    LET m == NextDiceMatch(s, from)
    IN IF m = NoMatch THEN <<>> ELSE <<m>> \o DiceMatchesFrom(s, m.end)

DiceMatches(s) == DiceMatchesFrom(s, 1)

\* every match of the constant pattern in s, left to right
RECURSIVE ConstMatchesFrom(_, _)
ConstMatchesFrom(s, from) ==
    LET m == NextConstMatch(s, from)
    IN IF m = NoMatch THEN <<>> ELSE <<m>> \o ConstMatchesFrom(s, m.end)

ConstMatches(s) == ConstMatchesFrom(s, 1)

\* every digit run the two patterns capture converts to an integer
NumbersConvert(s) ==
    /\ \A k \in 1 .. Len(DiceMatches(s)) :
          ParseI32(DiceMatches(s)[k].count) # ParseError
    /\ \A k \in 1 .. Len(ConstMatches(s)) :
          ParseI32(ConstMatches(s)[k].const) # ParseError

\* count entries of the group's die type, group after group
RECURSIVE ExpectedDice(_)
ExpectedDice(ms) ==
    IF ms = <<>> THEN <<>>
    ELSE [i \in 1 .. ParseI32(Head(ms).count) |->
            DieOfSides(Tail(Head(ms).dtype))]
         \o ExpectedDice(Tail(ms))

RECURSIVE SumOfCounts(_)
SumOfCounts(ms) ==
    IF ms = <<>> THEN 0 ELSE ParseI32(Head(ms).count) + SumOfCounts(Tail(ms))

\* the sum of the non-negative xs, in the integers, is at most cap
RECURSIVE SumWithin(_, _)
SumWithin(xs, cap) ==
    IF xs = <<>> THEN cap >= 0
    ELSE Head(xs) <= cap /\ SumWithin(Tail(xs), cap - Head(xs))

RECURSIVE MathSum(_)
MathSum(xs) == IF xs = <<>> THEN 0 ELSE Head(xs) + MathSum(Tail(xs))

\* diceSum * m + constantSum, in the integers, fits a signed 32-bit integer
ExactFits ==
    SumWithin(constants \o scores \o (IF crit = 2 THEN scores ELSE <<>>), I32Max)

(***************************************************************************)
(* The claims.                                                             *)
(***************************************************************************)

\* C1: for an input written as terms joined by "+", the first a dice group
\* with supported sides and every later one such a group or a plain digit
\* run, parse succeeds, Roll.constants is the list of the digit-run terms in
\* order, one entry per term, and Roll.dice holds count entries per group.
C1_ConstantsAreTheDigitTerms ==
    (ParseEnded /\ TermForm(input)) =>
        /\ ParseReturnedOk
        /\ constants = DigitTermValues(Split(input))
        /\ Len(dice) = DiceTermCounts(Split(input))

\* C2: when the dice-group pattern matches a group whose sides are not
\* supported, whatever its count (0 included), parse fails with the
\* unrecognized-die-type failure and the run prints no total.
C2_UnsupportedSidesFail ==
    (/\ pc = "exit"
     /\ NumbersConvert(input)
     /\ \E k \in 1 .. Len(DiceMatches(input)) :
           Tail(DiceMatches(input)[k].dtype) \notin SupportedSides)
    => /\ failure = "unreachable"
       /\ \A i \in 1 .. Len(out) : out[i][1] # "total"

\* C3: once the dice groups are parsed, Roll.dice is the concatenation, in
\* the order of the matches, of count entries of each group's die type; its
\* length is the sum of the counts (a group of count 0 adds nothing).
C3_DiceAreTheGroupsExpanded ==
    (pc = "parse_const" \/ ParseReturnedOk) =>
        /\ dice = ExpectedDice(DiceMatches(input))
        /\ Len(dice) = SumOfCounts(DiceMatches(input))

C3_Witness ==
    /\ ParseReturnedOk
    /\ input = <<"3", "d", "4", "+", "2", "d", "8", "+", "6">>
    /\ dice = <<"D4", "D4", "D4", "D8", "D8">>

\* C4: for every Roll and m in {1, 2}, cast returns
\* (sum of the outcomes) * m + (sum of the constants).
C4_CastIsDiceTimesCritPlusConstant ==
    CastEnded =>
        /\ failure = "none"
        /\ ExactFits
        /\ res = MathSum(scores) * crit + MathSum(constants)

\* C5: a run that fails on an unrecognized die type or on a digit run that
\* does not fit the integer type fails before any die is drawn: it prints no
\* outcome, no separator and no total.
C5_FailureBeforeAnyDraw ==
    failure \in {"ParseIntError", "unreachable"} =>
        /\ scores = <<>>
        /\ \A i \in 1 .. Len(out) : out[i] \in {Notice, ErrLine}

C5_Witness ==
    /\ pc = "exit"
    /\ failure = "unreachable"
    /\ Len(dice) > 0

\* C6: when run returns a failure, the error is printed and the process ends
\* with a non-zero status.
C6_FailureExitsNonZero ==
    (pc = "exit" /\ failure = "ParseIntError") =>
        /\ \E i \in 1 .. Len(out) : out[i] = ErrLine
        /\ exitCode # 0

\* C7: every draw of a die lies in 1 .. sides of its type.
C7_DrawInRange ==
    /\ Len(scores) <= Len(dice)
    /\ \A i \in 1 .. Len(scores) : scores[i] >= 1 /\ scores[i] <= SidesOf(dice[i])

\* both endpoints drawn in one run
C7_Witness ==
    /\ Len(scores) >= 2
    /\ scores[1] = 1
    /\ scores[Len(scores)] = SidesOf(dice[Len(scores)])

\* C8: every entry of Roll.constants is the value of a digit run that has a
\* "+" right before it and a "+" or the end of the input right after it (so
\* never of a digit run that starts the input); "+3" parses to no dice and
\* the constants [3].
C8_ConstantsFollowAPlus ==
    /\ Len(csrc) = Len(constants)
    /\ \A i \in 1 .. Len(constants) :
         LET p == csrc[i]
             q == SkipDigits(input, p + 1)
         IN /\ p >= 1 /\ p + 1 # 1
            /\ input[p] = "+"
            /\ q > p + 1
            /\ q > Len(input) \/ input[q] = "+"
            /\ constants[i] = ParseI32(SubSeq(input, p + 1, q - 1))
            /\ i > 1 => csrc[i - 1] < p
    /\ (ParseReturnedOk /\ input = <<"+", "3">>) =>
         dice = <<>> /\ constants = <<3>>

C8_Witness ==
    /\ ParseReturnedOk
    /\ input = <<"+", "3">>
    /\ constants = <<3>>

\* C9: a successful run prints one line per die, in the order of Roll.dice,
\* then the separator, then the total, once; no outcome follows the
\* separator.
C9_OutputOrder ==
    /\ \A i, j \in 1 .. Len(out) :
         (i < j /\ out[i] = Separator) => out[j][1] = "total"
    /\ (pc = "exit" /\ failure = "none") =>
         /\ Len(scores) = Len(dice)
         /\ out = (IF optCrit THEN <<Notice>> ELSE <<>>)
                  \o [i \in 1 .. Len(dice) |-> ScoreLine(scores[i])]
                  \o <<Separator, TotalLine(res)>>

C9_Witness ==
    /\ pc = "exit"
    /\ failure = "none"
    /\ Len(dice) >= 2
    /\ scores[1] # scores[2]

\* C10: the 32-bit computation of cast never overflows: the value returned
\* is the exact diceSum * m + constantSum.
C10_CastNeverOverflows ==
    /\ failure # "overflow"
    /\ (pc = "cast" /\ Len(scores) = Len(dice)) => ExactFits

====
